---- MODULE Spec2Model ----
(***************************************************************************)
(* A model of CaveCalc v2.0.                                               *)
(*                                                                         *)
(* Part I  (Spec, SpecFair): cavecalc/forward_models.py -- ForwardModels   *)
(*   batches run one after another against one output directory:          *)
(*   construction, _check_previous_saves, run_models (the run_linear loop  *)
(*   one solver call per step), save.                                      *)
(* Part II (SpecCDA): cavecalc/util.py -- PostProcessor.CDA, the           *)
(*   tolerance matching of one model run against the measured series and   *)
(*   the persistence of the CDA tables, called run after run in one        *)
(*   output directory.                                                     *)
(***************************************************************************)
EXTENDS Integers, Sequences, FiniteSets, TLC

(***************************************************************************)
(* Bounds of the model.                                                    *)
(***************************************************************************)
\* Longest list of parameter sets given to one ForwardModels object.
MaxBatch == 2
\* Number of ForwardModels objects built one after another.
MaxRounds == 2
\* Number of steps of a model run (the length of every output series).
MaxSteps == 2
\* Most rows (timepoints) of the measured-data file.
MaxRows == 2
\* Most CDA calls made one after another in one output directory.
MaxCalls == 2
\* Length of the output series of a Simulator that is post-processed.
MaxSeries == 3
\* Most models loaded into one Evaluate object.
MaxModels == 3

VARIABLES
    \* ---- Part I: ForwardModels ----
    pc,             \* position of the driver script: none | new | running | done | saved | raised
    round,          \* how many ForwardModels objects have been built
    submitted,      \* the parameter sets the object was built with (self.input at __init__)
    input,          \* self.input
    has_results,    \* whether self.results has been assigned
    results,        \* self.results
    done_input,     \* self.done_input
    done_results,   \* self.done_results
    partial,        \* the list run_linear is building
    calls,          \* the SettingsObjects run_a_model has been called with, in order
    failed,         \* ids for which the solver raised
    mode,           \* run_models' mode argument, capitalized
    interactive,    \* kwargs of run_models
    use_by_default,
    reuse,          \* the decision taken by _check_previous_saves (FALSE if it returned early)
    pkl_exists,     \* settings.pkl and results.pkl exist in output_dir
    settings_pkl,   \* content of settings.pkl
    results_pkl,    \* content of results.pkl
    cwd,            \* the process working directory
    ret_dir,        \* run_models' local ret_dir
    \* ---- Part II: PostProcessor.CDA ----
    meas_file,      \* the measured-data file at settings['user_filepath']
    cda_batch,      \* the model runs whose PostProcessor will call CDA, in order
    cda_k,          \* how many of them have called CDA
    dir_exists,     \* the directory 'CDA Results' exists
    tolerances_csv, \* Tolerances.csv
    input_ranges_csv, \* Input_Ranges.csv
    all_outputs_csv,  \* All_outputs.csv
    matches_csv,    \* Matches.csv
    outcome,        \* how the last CDA call ended
    last_results,   \* the list 'results' of the last CDA call
    last_all,       \* the list 'all_record' of the last CDA call
    last_checks,    \* the eight checks of every (step, timepoint) the last call went through
    last_writes,    \* the tables the last call wrote, in the order of its to_csv calls
    \* ---- Part III: PostProcessor.__init__, DBReader, Evaluate ----
    pp_pc,          \* the method of PostProcessor.__init__ that ran last
    pp_mineralogy,  \* settings['precipitate_mineralogy']
    pp_output,      \* self.s.output
    pp_prev,        \* self.s.output when the method that ran last began
    pp_error,       \* the exception PostProcessor.__init__ has raised, "none" if none
    db_alphas,      \* DBReader.alphas, the cache of get_1000lnalpha
    db_call,        \* the last call made to the DBReader
    db_ret,         \* what it returned
    ev_settings,    \* Evaluate._settings
    ev_report       \* what get_settings_report returned last

fmVars == << pc, round, submitted, input, has_results, results, done_input,
             done_results, partial, calls, failed, mode, interactive,
             use_by_default, reuse, pkl_exists, settings_pkl, results_pkl,
             cwd, ret_dir >>

cdaVars == << meas_file, cda_batch, cda_k, dir_exists, tolerances_csv,
              input_ranges_csv, all_outputs_csv, matches_csv, outcome,
              last_results, last_all, last_checks, last_writes >>

ppVars == << pp_pc, pp_mineralogy, pp_output, pp_prev, pp_error >>

dbVars == << db_alphas, db_call, db_ret >>

evVars == << ev_settings, ev_report >>

utilVars == << ppVars, dbVars, evVars >>

vars == << fmVars, cdaVars, utilVars >>

(***************************************************************************)
(* Part I: data                                                            *)
(***************************************************************************)
\* The settings dicts (SettingsObject.dict()) the batches draw from: two
\* dicts with the same keys and different values, one with one more key.
Dicts == { [temperature |-> 1],
           [temperature |-> 2],
           [temperature |-> 1, soil_pCO2 |-> 1] }

Modes == { "Serial", "Parallel", "Other" }

RECURSIVE SeqsUpTo(_, _)
SeqsUpTo(S, n) ==
    IF n = 0 THEN { << >> }
    ELSE LET shorter == SeqsUpTo(S, n - 1)
         IN  shorter \cup { Append(s, x) : s \in { t \in shorter : Len(t) = n - 1 }, x \in S }

Batches == SeqsUpTo(Dicts, MaxBatch)

Range(s) == { s[i] : i \in 1..Len(s) }

\* SettingsMaker(**settings).settings(): one SettingsObject per parameter
\* set, each with its id, in submission order.
MakeInput(batch) == [ k \in 1..Len(batch) |-> [ id |-> k, d |-> batch[k] ] ]

\* caves.Simulator(SO.dict(), i).run(): the model output for a settings
\* dict.  The solver is a black box; its output is tagged with the settings
\* it was computed from.
Simulate(d) == [ out |-> d ]

\* run_a_model when the solver returns: (r, i)
run_a_model(SO) == << Simulate(SO.d), SO.id >>

(***************************************************************************)
(* _check_previous_saves                                                   *)
(***************************************************************************)
\* dict_find compares the key sets, then every value.
DictEqual(a, b) ==
    /\ DOMAIN a = DOMAIN b
    /\ \A key \in DOMAIN a : a[key] = b[key]

\* A dict_find that never looks at the last saved model.
dict_find_skip_last(SO, list_of_SOs) ==
    LET hits == { i \in 1..(Len(list_of_SOs) - 1) : DictEqual(SO.d, list_of_SOs[i].d) }
    IN  IF hits = {} THEN 0
        ELSE CHOOSE i \in hits : \A j \in hits : i <= j

\* dict_find: the index of the first saved SettingsObject with the same
\* dict, 0 for None.
dict_find(SO, list_of_SOs) ==
    LET hits == { i \in 1..Len(list_of_SOs) : DictEqual(SO.d, list_of_SOs[i].d) }
    IN  IF hits = {} THEN 0
        ELSE CHOOSE i \in hits : \A j \in hits : i <= j

Repeated(inp, prev_input) ==
    SelectSeq(inp, LAMBDA s : dict_find(s, prev_input) # 0)

\* A new_input that keeps every parameter set, repeated or not.
new_input_all(inp, prev_input) == inp

\* new_input: the parameter sets with no saved equal
new_input(inp, prev_input) ==
    SelectSeq(inp, LAMBDA s : dict_find(s, prev_input) = 0)

\* done_input: the saved SettingsObject of every repeated parameter set
done_input_of(inp, prev_input) ==
    LET m == Repeated(inp, prev_input)
    IN  [ j \in 1..Len(m) |-> prev_input[dict_find(m[j], prev_input)] ]

\* A done_results that takes the first saved result for every repeat.
done_results_from_front(inp, prev_input, prev_results) ==
    LET m == Repeated(inp, prev_input)
    IN  [ j \in 1..Len(m) |-> prev_results[1] ]

\* done_results: the saved result of every repeated parameter set
done_results_of(inp, prev_input, prev_results) ==
    LET m == Repeated(inp, prev_input)
    IN  [ j \in 1..Len(m) |-> prev_results[dict_find(m[j], prev_input)] ]

\* Re-used output put in front of the new output.
extend_front(new, done) == done \o new

\* self.results.extend(self.done_results); self.input.extend(self.done_input)
extend(new, done) == new \o done

(***************************************************************************)
(* Part I: actions                                                         *)
(***************************************************************************)
InitFM ==
    /\ pc = "none"
    /\ round = 0
    /\ submitted = << >>
    /\ input = << >>
    /\ has_results = FALSE
    /\ results = << >>
    /\ done_input = << >>
    /\ done_results = << >>
    /\ partial = << >>
    /\ calls = << >>
    /\ failed = {}
    /\ mode = "Serial"
    /\ interactive = FALSE
    /\ use_by_default = TRUE
    /\ reuse = FALSE
    /\ pkl_exists = FALSE
    /\ settings_pkl = << >>
    /\ results_pkl = << >>
    /\ cwd = "home"
    /\ ret_dir = "home"

\* ForwardModels.__init__(settings, output_dir)
Construct ==
    /\ pc \in { "none", "saved", "raised" }
    /\ round < MaxRounds
    /\ \E batch \in Batches :
        /\ submitted' = MakeInput(batch)
        /\ input' = MakeInput(batch)
    /\ round' = round + 1
    /\ done_input' = << >>
    /\ done_results' = << >>
    /\ has_results' = FALSE
    /\ results' = << >>
    /\ partial' = << >>
    /\ calls' = << >>
    /\ failed' = {}
    /\ reuse' = FALSE
    /\ pc' = "new"
    /\ UNCHANGED << cdaVars, utilVars >>
    /\ UNCHANGED << mode, interactive, use_by_default, pkl_exists,
                    settings_pkl, results_pkl, cwd, ret_dir >>

\* run_models up to the call of run_linear / run_async:
\* _check_previous_saves(**kwargs), ret_dir = os.getcwd(),
\* os.chdir(self.output_dir), the choice of the mode.
RunModelsBegin ==
    /\ pc = "new"
    /\ \E m \in Modes, inter \in BOOLEAN, ubd \in BOOLEAN, answer \in BOOLEAN :
        LET decided == IF inter THEN answer ELSE ubd
            replace == pkl_exists /\ decided
            inp     == IF replace THEN new_input(input, settings_pkl) ELSE input
        IN  /\ mode' = m
            /\ interactive' = inter
            /\ use_by_default' = ubd
            /\ reuse' = replace
            /\ input' = inp
            /\ done_input' = IF replace THEN done_input_of(input, settings_pkl)
                             ELSE done_input
            /\ done_results' = IF replace
                               THEN done_results_of(input, settings_pkl, results_pkl)
                               ELSE done_results
            /\ ret_dir' = cwd
            /\ IF m = "Serial" \/ (m = "Parallel" /\ inp = << >>)
               THEN /\ pc' = "running"
                    /\ cwd' = "output_dir"
               ELSE \* ValueError (mode not recognised), or run_async's
                    \* apply_async(run_a_model, (e.dict(), e.id)): a TypeError
                    \* that res.get() re-raises; finally: os.chdir(ret_dir)
                    /\ pc' = "raised"
                    /\ cwd' = cwd
    /\ UNCHANGED << cdaVars, utilVars >>
    /\ UNCHANGED << round, submitted, has_results, results, partial, calls,
                    failed, pkl_exists, settings_pkl, results_pkl >>

\* One turn of run_linear's loop: run_a_model(e), the solver returns.
SolverReturns ==
    /\ pc = "running"
    /\ mode = "Serial"
    /\ Len(partial) < Len(input)
    /\ LET e == input[Len(partial) + 1]
       IN  /\ calls' = Append(calls, e)
           /\ partial' = Append(partial, run_a_model(e))
    /\ UNCHANGED << cdaVars, utilVars >>
    /\ UNCHANGED << pc, round, submitted, input, has_results, results, done_input,
                    done_results, failed, mode, interactive, use_by_default,
                    reuse, pkl_exists, settings_pkl, results_pkl, cwd, ret_dir >>

\* A solver failure that leaves run_models without its finally clause.
SolverRaises_no_finally ==
    /\ pc = "running"
    /\ mode = "Serial"
    /\ Len(partial) < Len(input)
    /\ LET e == input[Len(partial) + 1]
       IN  /\ calls' = Append(calls, e)
           /\ failed' = failed \cup { e.id }
    /\ pc' = "raised"
    /\ UNCHANGED << cdaVars, utilVars >>
    /\ UNCHANGED << round, submitted, input, has_results, results, done_input,
                    done_results, partial, mode, interactive, use_by_default,
                    reuse, pkl_exists, settings_pkl, results_pkl, cwd, ret_dir >>

\* One turn of run_linear's loop: sim.run() raises.  run_a_model has no
\* handler, so the exception leaves run_linear and run_models; finally:
\* os.chdir(ret_dir).
SolverRaises ==
    /\ pc = "running"
    /\ mode = "Serial"
    /\ Len(partial) < Len(input)
    /\ LET e == input[Len(partial) + 1]
       IN  /\ calls' = Append(calls, e)
           /\ failed' = failed \cup { e.id }
    /\ pc' = "raised"
    /\ cwd' = ret_dir
    /\ UNCHANGED << cdaVars, utilVars >>
    /\ UNCHANGED << round, submitted, input, has_results, results, done_input,
                    done_results, partial, mode, interactive, use_by_default,
                    reuse, pkl_exists, settings_pkl, results_pkl, ret_dir >>

\* The end of run_models: self.results = results, the two extends,
\* finally: os.chdir(ret_dir).
RunModelsEnd ==
    /\ pc = "running"
    /\ Len(partial) = Len(input)
    /\ results' = extend(partial, done_results)
    /\ input' = extend(input, done_input)
    /\ has_results' = TRUE
    /\ cwd' = ret_dir
    /\ pc' = "done"
    /\ UNCHANGED << cdaVars, utilVars >>
    /\ UNCHANGED << round, submitted, done_input, done_results, partial, calls,
                    failed, mode, interactive, use_by_default, reuse, pkl_exists,
                    settings_pkl, results_pkl, ret_dir >>

\* A save() that adds the batch to the models already in the two files.
Save_keeping_old ==
    /\ pc = "done"
    /\ settings_pkl' = settings_pkl \o input
    /\ results_pkl' = results_pkl \o results
    /\ pkl_exists' = TRUE
    /\ pc' = "saved"
    /\ UNCHANGED << cdaVars, utilVars >>
    /\ UNCHANGED << round, submitted, input, has_results, results, done_input,
                    done_results, partial, calls, failed, mode, interactive,
                    use_by_default, reuse, cwd, ret_dir >>

\* ForwardModels.save(): pickle.dump of self.input and of self.results into
\* settings.pkl and results.pkl, opened 'wb'
Save ==
    /\ pc = "done"
    /\ settings_pkl' = input
    /\ results_pkl' = results
    /\ pkl_exists' = TRUE
    /\ pc' = "saved"
    /\ UNCHANGED << cdaVars, utilVars >>
    /\ UNCHANGED << round, submitted, input, has_results, results, done_input,
                    done_results, partial, calls, failed, mode, interactive,
                    use_by_default, reuse, cwd, ret_dir >>

\* Part II at rest: no measured file, no run, an empty output directory.
NoFile == [ has_age |-> FALSE, cols |-> {}, age |-> << >>, cell |-> << >> ]

Absent == [ exists |-> FALSE, header_lines |-> 0, rows |-> << >> ]

IdleCDA ==
    /\ meas_file = NoFile
    /\ cda_batch = << >>
    /\ cda_k = 0
    /\ dir_exists = FALSE
    /\ tolerances_csv = Absent
    /\ input_ranges_csv = Absent
    /\ all_outputs_csv = Absent
    /\ matches_csv = Absent
    /\ outcome = "none"
    /\ last_results = << >>
    /\ last_all = << >>
    /\ last_checks = << >>
    /\ last_writes = << >>

\* Part III at rest: no Simulator is being post-processed, the DBReader's
\* cache is empty and no call has been made, no model is loaded.
IdlePP ==
    /\ pp_pc = "idle"
    /\ pp_mineralogy = ""
    /\ pp_output = << >>
    /\ pp_prev = << >>
    /\ pp_error = "none"

IdleDB ==
    /\ db_alphas = << >>
    /\ db_call = [ fn |-> "none", isotope |-> "", species |-> "", temperature |-> 0 ]
    /\ db_ret = [ kind |-> "none", val |-> 0 ]

IdleEval ==
    /\ ev_settings = << >>
    /\ ev_report = [ kind |-> "none", val |-> << >>, models |-> 0 ]

Init == InitFM /\ IdleCDA /\ IdlePP /\ IdleDB /\ IdleEval

Next ==
    \/ Construct
    \/ RunModelsBegin
    \/ SolverReturns
    \/ SolverRaises
    \/ RunModelsEnd
    \/ Save

Spec == Init /\ [][Next]_vars

\* run_linear is a plain loop: a started solver call ends, and run_models
\* goes on to its end.
SpecFair ==
    /\ Init /\ [][Next]_vars
    /\ WF_vars(SolverReturns \/ SolverRaises)
    /\ WF_vars(RunModelsEnd)

\* The batch an earlier session ran and saved in the output directory.
EarlierBatch == << [temperature |-> 1], [temperature |-> 2] >>

\* The output directory holds the settings.pkl and the results.pkl that
\* save() wrote after an earlier session's run_models of EarlierBatch.
InitSavedFM ==
    /\ pc = "none"
    /\ round = 0
    /\ submitted = << >>
    /\ input = << >>
    /\ has_results = FALSE
    /\ results = << >>
    /\ done_input = << >>
    /\ done_results = << >>
    /\ partial = << >>
    /\ calls = << >>
    /\ failed = {}
    /\ mode = "Serial"
    /\ interactive = FALSE
    /\ use_by_default = TRUE
    /\ reuse = FALSE
    /\ pkl_exists = TRUE
    /\ settings_pkl = MakeInput(EarlierBatch)
    /\ results_pkl = [ k \in 1..Len(EarlierBatch) |-> run_a_model(MakeInput(EarlierBatch)[k]) ]
    /\ cwd = "home"
    /\ ret_dir = "home"

InitResave == InitSavedFM /\ IdleCDA /\ IdlePP /\ IdleDB /\ IdleEval

\* Batches run and saved into an output directory that holds an earlier save.
SpecResave == InitResave /\ [][Next]_vars

(***************************************************************************)
(* Part I: claims                                                          *)
(***************************************************************************)
DefaultArgs == ~interactive /\ use_by_default

\* s has an equal (same keys, same values) parameter set in settings.pkl
IsSaved(s) ==
    pkl_exists /\ \E i \in 1..Len(settings_pkl) : settings_pkl[i].d = s.d

\* C1: with default arguments, a submitted parameter set that has an equal
\* one saved in the output directory is Reused: it is not in the list handed
\* to the solver, run_a_model is never called for it, and a result saved for
\* it is in the final results.
C1_SavedSetIsReused ==
    (pc \in { "running", "done", "raised" } /\ DefaultArgs) =>
        \A k \in 1..Len(submitted) :
            IsSaved(submitted[k]) =>
                /\ submitted[k] \notin Range(calls)
                /\ (pc = "running" => submitted[k] \notin Range(input))
                /\ (pc = "done" =>
                        \E i \in 1..Len(settings_pkl) :
                            /\ settings_pkl[i].d = submitted[k].d
                            /\ results_pkl[i] \in Range(results))

\* A batch that mixes a Reused parameter set with a newly run one has ended.
C1_Witness ==
    /\ pc = "done" /\ DefaultArgs
    /\ \E k \in 1..Len(submitted) : IsSaved(submitted[k])
    /\ calls # << >>

\* C2 (as claimed): in Serial mode a solver failure is recorded for its id
\* only, as (None, id), run_models is not aborted, every other parameter set
\* is still run and self.results is assigned.
C2_SolverFailureIsolated ==
    (mode = "Serial" /\ failed # {}) =>
        /\ pc \in { "running", "done", "saved" }
        /\ \A id \in failed : \E j \in 1..Len(partial) : partial[j][2] = id
        /\ (pc \in { "done", "saved" } => has_results)

\* The order run_models leaves: the newly run sets, then the Reused ones.
NewThenReused ==
    SelectSeq(submitted, LAMBDA s : ~IsSaved(s))
        \o SelectSeq(submitted, LAMBDA s : IsSaved(s))

\* C3 (as claimed): after run_models with reuse, the k-th final result is the
\* result of the k-th submitted parameter set.
C3_SubmissionOrder ==
    (pc = "done" /\ reuse) =>
        /\ Len(results) = Len(submitted)
        /\ \A k \in 1..Len(submitted) : results[k][1] = Simulate(submitted[k].d)

\* C3 (amended): after run_models with reuse, the final results are the
\* results of the newly run sets in submission order, followed by the results
\* of the Reused sets in submission order.
C3_NewThenReusedOrder ==
    (pc = "done" /\ reuse) =>
        /\ Len(results) = Len(NewThenReused)
        /\ \A k \in 1..Len(NewThenReused) :
                results[k][1] = Simulate(NewThenReused[k].d)

\* A Reused set was submitted before a new one, and the batch has ended.
C3_Witness ==
    /\ pc = "done" /\ reuse
    /\ \E a, b \in 1..Len(submitted) :
        a < b /\ IsSaved(submitted[a]) /\ ~IsSaved(submitted[b])

\* C4: after a successful run_models, self.input and self.results have the
\* same length and results[k] is the (result, id) pair of input[k]; save()
\* writes the two lists as they are.
C4_IndexAligned ==
    /\ pc \in { "done", "saved" } =>
        /\ has_results
        /\ Len(results) = Len(input)
        /\ \A k \in 1..Len(input) :
                results[k] = << Simulate(input[k].d), input[k].id >>
    /\ pc = "saved" => (settings_pkl = input /\ results_pkl = results)

\* Saved after a batch that mixed Reused and newly run sets.
C4_Witness ==
    /\ pc = "saved" /\ reuse
    /\ done_input # << >>
    /\ calls # << >>

\* The parameter sets a Serial run has to hand to the solver.
ToRun == SelectSeq(submitted, LAMBDA s : ~(reuse /\ IsSaved(s)))

Completed(s) == \E j \in 1..Len(partial) : partial[j] = << Simulate(s.d), s.id >>

Reused(s) == \E j \in 1..Len(done_input) : done_input[j].d = s.d

C5_OncePerNewSet ==
    (mode = "Serial" /\ pc \in { "running", "done", "raised" }) =>
        /\ Len(calls) <= Len(ToRun)
        /\ \A k \in 1..Len(calls) : calls[k] = ToRun[k]
        /\ (pc = "done" =>
                /\ calls = ToRun
                /\ \A k \in 1..Len(submitted) :
                        Completed(submitted[k]) # Reused(submitted[k]))

\* C5: in Serial mode the solver is called once for every parameter set that
\* is not Reused, in submission order, and never for a Reused one; unless a
\* solver call raises, run_models ends with every submitted parameter set
\* either Completed or Reused, never both.
C5_SerialOnceEach ==
    /\ [] C5_OncePerNewSet
    /\ (pc = "running") ~> (pc = "done" \/ failed # {})

\* A Serial batch with a Reused and a newly run set has ended.
C5_Witness ==
    /\ pc = "done" /\ mode = "Serial" /\ reuse
    /\ done_input # << >>
    /\ calls # << >>

\* C27: run_models leaves the working directory as it found it on every
\* exit -- when it completes, when a solver call raises and when the mode is
\* not recognised, the directory is the one in effect at the call.
C27_CwdRestored ==
    pc \in { "done", "raised", "saved" } => (cwd = ret_dir /\ cwd = "home")

\* a solver call raised after another had returned, in the output directory,
\* and run_models was left
C27_Witness ==
    /\ pc = "raised" /\ mode = "Serial"
    /\ failed # {} /\ partial # << >>
    /\ cwd = "home"

\* the settings dicts of a list of SettingsObjects
DictsOf(list_of_SOs) == { list_of_SOs[k].d : k \in 1..Len(list_of_SOs) }

\* the parameter sets of the save found in the output directory at the start
EarlierSaved == DictsOf(MakeInput(EarlierBatch))

\* C30: save() replaces settings.pkl and results.pkl with exactly the
\* parameter sets and results of the current batch, the newly run ones
\* first and the Reused ones after them; only sets of the last save are
\* Reused, so a set saved by an earlier batch and left out of the batch
\* saved last is no longer in the files and is run anew when submitted again.
C30_SaveReplaces ==
    /\ pc = "saved" =>
        /\ settings_pkl = calls \o done_input
        /\ results_pkl = partial \o done_results
        /\ settings_pkl = input /\ results_pkl = results
        /\ DictsOf(settings_pkl) = DictsOf(submitted)
    /\ pc \in { "running", "done", "raised" } =>
        /\ Range(done_input) \subseteq Range(settings_pkl)
        /\ \A k \in 1..Len(submitted) :
            submitted[k].d \in EarlierSaved \ DictsOf(settings_pkl) =>
                /\ ~Reused(submitted[k])
                /\ (pc = "running" => submitted[k] \in Range(input))
                /\ (pc = "done" => submitted[k] \in Range(calls))

\* a set of the earlier save was left out of the batch saved next; a later
\* batch submits it next to a set of that batch: the one is run anew, the
\* other Reused
C30_Witness ==
    /\ pc = "done" /\ reuse /\ round = 2
    /\ done_input # << >>
    /\ \E k \in 1..Len(submitted) :
        /\ submitted[k].d \in EarlierSaved \ DictsOf(settings_pkl)
        /\ submitted[k] \in Range(calls)

(***************************************************************************)
(* Part II: PostProcessor.CDA -- data                                      *)
(*                                                                         *)
(* Numbers are fixed-point with five decimals (Unit is 1.0), so that the   *)
(* d18O conversion x * 0.97001 - 29.99 and the mol/mol -> mmol/mol         *)
(* scaling are computed exactly.  A value that may be missing (None, a NaN *)
(* cell) is a set: empty when missing, else holding the value.             *)
(***************************************************************************)
Unit == 100000

None == {}

Some(v) == { v }

Val(x) == CHOOSE v \in x : TRUE

Abs(x) == IF x < 0 THEN -x ELSE x

\* the keys of keys_map[mineralogy]
Proxies == { "d13C", "d18O", "MgCa", "dcp", "d44Ca", "SrCa", "BaCa", "UCa" }

\* the proxies whose prediction is scaled mol/mol -> mmol/mol
XCa == { "MgCa", "SrCa", "BaCa", "UCa" }

\* the proxies in the order of their residual statements
ResidualOrder == << "d18O", "MgCa", "dcp", "d44Ca", "SrCa", "BaCa", "UCa" >>

\* the swept input variables of Input_Ranges.csv (two of the nineteen)
Gkeys == { "soil_pCO2", "temperature" }

\* ---- the measured-data files examined ----
\* The measured value of proxy p in row r of a file without gaps: every row
\* has its own value, one tolerance away from the next row's.
MeasAt(p, r) == IF p = "d18O" THEN r * 97001 - 2999000 ELSE r * Unit

FileOf(cols, n) ==
    [ has_age |-> TRUE,
      cols    |-> cols,
      age     |-> [ r \in 1..n |-> Some(r) ],
      cell    |-> [ p \in cols |-> [ r \in 1..n |-> Some(MeasAt(p, r)) ] ] ]

\* the file f with the cell of column c in row r left empty
Blank(f, c, r) ==
    IF c = "age" THEN [ f EXCEPT !.age[r] = None ]
    ELSE [ f EXCEPT !.cell[c][r] = None ]

\* no proxy column, a d13C column, one other proxy column, or both
ColSets ==
    { a \cup b : a \in { {}, { "d13C" } },
                 b \in { {} } \cup { { p } : p \in Proxies \ { "d13C" } } }

\* Files of no row or of MaxRows rows, with no gap or with one empty cell.
Files ==
    UNION { LET f == FileOf(cs, n)
            IN  { f } \cup { Blank(f, c, r) : c \in cs \cup { "age" }, r \in 1..n }
            : cs \in ColSets, n \in { 0, MaxRows } }

\* a file with no column whose name contains 'age'
NoAgeFile == [ FileOf({ "d13C" }, MaxRows) EXCEPT !.has_age = FALSE, !.age = << >> ]

\* the file of the runs made one after another in one directory
SweepFile == FileOf({ "d13C", "MgCa" }, MaxRows)

\* ---- the model runs examined ----
\* The raw output value whose prediction is measured level k; 0 stands for
\* a missing value (None after set_none).
RawAt(p, k) ==
    IF k = 0 THEN None
    ELSE IF p \in XCa THEN Some(k * 100) ELSE Some(k * Unit)

\* tolerance_<proxy>: the distance between two measured rows
TolAt(p) == IF p = "d18O" THEN 97001 ELSE Unit

MakeRun(path, mineralogy, pco2, out) ==
    [ user_filepath |-> path,
      precipitate_mineralogy |-> mineralogy,
      settings  |-> [ soil_pCO2 |-> pco2, temperature |-> 20 ],
      tolerance |-> [ p \in Proxies |-> TolAt(p) ],
      output    |-> out ]

\* the prediction levels tried: missing, on row 1, between rows, far off
PredLevels == { 0, 1, 3, 9 }

\* Runs against file f: at the first or at the last step every proxy of the
\* file takes any of the levels, at the other steps level 1; the proxies the
\* file does not have are all at level 1 or, against a file of at most one
\* proxy, all missing.
RichRuns(f) ==
    { MakeRun(TRUE, "Calcite", 1000,
              [ p \in Proxies |->
                    [ i \in 1..MaxSteps |->
                        IF p \in f.cols
                        THEN IF i = s THEN RawAt(p, lv[p]) ELSE RawAt(p, 1)
                        ELSE RawAt(p, by) ] ])
      : s \in { 1, MaxSteps }, lv \in [ f.cols -> PredLevels ],
        by \in IF Cardinality(f.cols) <= 1 THEN { 0, 1 } ELSE { 1 } }

FlatOutput(k) == [ p \in Proxies |-> [ i \in 1..MaxSteps |-> RawAt(p, k) ] ]

\* Runs of a sweep: soil_pCO2 1000 (Calcite) or 2000 (Aragonite), every
\* prediction on row 1, every prediction far off, or Mg/Ca missing at the
\* last step; a run without user_filepath; a run with another mineralogy.
SweepRuns ==
    { MakeRun(TRUE, m[1], m[2], out)
      : m \in { << "Calcite", 1000 >>, << "Aragonite", 2000 >> },
        out \in { FlatOutput(1), FlatOutput(9),
                  [ FlatOutput(1) EXCEPT !["MgCa"][MaxSteps] = None ] } }
    \cup { MakeRun(FALSE, "Calcite", 1000, FlatOutput(1)),
           MakeRun(TRUE, "Dolomite", 1000, FlatOutput(1)) }

\* What is examined: one run against any of the files, or up to MaxCalls
\* sweep runs one after another against the sweep file.
Scenarios ==
    UNION { { [ file |-> f, batch |-> << r >> ] : r \in RichRuns(f) } : f \in Files }
    \cup { [ file |-> NoAgeFile, batch |-> << r >> ] : r \in SweepRuns }
    \cup { [ file |-> SweepFile, batch |-> b ] : b \in SeqsUpTo(SweepRuns, MaxCalls) }

(***************************************************************************)
(* Part II: PostProcessor.CDA -- the matching                              *)
(***************************************************************************)
\* Series.dropna().tolist()
dropna(cells) ==
    LET kept == SelectSeq(cells, LAMBDA c : c # None)
    IN  [ k \in 1..Len(kept) |-> Val(kept[k]) ]

age_data(f) == dropna(f.age)

\* <proxy>_data is not None: the file has the column
HasColumn(f, p) == p \in f.cols

\* <proxy>_data of a column the file has
p_data(f, p) == dropna(f.cell[p])

\* 'if <proxy>_data': the column is there and has a cell that is not empty
Truthy(f, p) == HasColumn(f, p) /\ Len(p_data(f, p)) > 0

\* num_data_points
NumSteps(run) == Len(run.output["d13C"])

\* x * 0.97001 - 29.99 in fixed point, the product taken in two parts
d18O_to_VPDB(x) ==
    ((x \div 1000) * 97001) \div 100 + ((x % 1000) * 97001) \div Unit - 2999000

\* <proxy>_spel at step i: the unit scaling, the d18O conversion and the
\* -999 put in for a missing d13C, d18O or d44Ca
spel(run, p, i) ==
    LET raw == run.output[p][i]
    IN  IF raw = None
        THEN IF p \in { "d13C", "d18O", "d44Ca" } THEN Some(-999 * Unit) ELSE None
        ELSE IF p = "d18O" THEN Some(d18O_to_VPDB(Val(raw)))
        ELSE IF p \in XCa THEN Some(Val(raw) * 1000)
        ELSE raw

\* d13C_value: np.nan (here None) past the end of d13C_data
d13C_value(f, j) ==
    IF Truthy(f, "d13C") /\ j <= Len(p_data(f, "d13C"))
    THEN Some(p_data(f, "d13C")[j])
    ELSE None

\* What the residual statement of proxy p raises for (step i, timepoint j)
StmtError(run, f, p, i, j) ==
    IF ~Truthy(f, p) THEN "ok"
    ELSE IF j > Len(p_data(f, p)) THEN "IndexError"
    ELSE IF spel(run, p, i) = None THEN "TypeError"
    ELSE "ok"

\* What the body of the timepoint loop raises for (i, j): the first failing
\* residual statement, else abs(None) in d44Ca_check when the d44Ca column
\* has no cell that is not empty.
PairError(run, f, i, j) ==
    LET bad == { n \in 1..Len(ResidualOrder) :
                    StmtError(run, f, ResidualOrder[n], i, j) # "ok" }
    IN  IF bad # {}
        THEN StmtError(run, f, ResidualOrder[CHOOSE n \in bad : \A m \in bad : n <= m], i, j)
        ELSE IF HasColumn(f, "d44Ca") /\ ~Truthy(f, "d44Ca") THEN "TypeError"
        ELSE "ok"

\* residual (d13C) and <proxy>_residual: predicted - measured
residual(run, f, p, i, j) ==
    IF p = "d13C"
    THEN IF d13C_value(f, j) = None THEN None
         ELSE Some(Val(spel(run, p, i)) - Val(d13C_value(f, j)))
    ELSE IF Truthy(f, p) THEN Some(Val(spel(run, p, i)) - p_data(f, p)[j])
    ELSE None

\* A comparison that rejects a residual on the tolerance.
WithinTolStrict(res, tol) == Abs(res) < tol

\* abs(residual) <= tolerance
WithinTol(res, tol) == Abs(res) <= tol

\* A check that fails where the file has no data of the proxy.
check_absent_fails(run, f, p, i, j) ==
    /\ Truthy(f, p)
    /\ residual(run, f, p, i, j) # None
    /\ WithinTol(Val(residual(run, f, p, i, j)), run.tolerance[p])

\* residual_check and <proxy>_check
check(run, f, p, i, j) ==
    LET res == residual(run, f, p, i, j)
    IN  IF p = "d13C"
        THEN IF Truthy(f, p) THEN res # None /\ WithinTol(Val(res), run.tolerance[p])
             ELSE TRUE
        ELSE IF p = "d44Ca"
        THEN IF HasColumn(f, p) THEN WithinTol(Val(res), run.tolerance[p]) ELSE TRUE
        ELSE IF Truthy(f, p) THEN WithinTol(Val(res), run.tolerance[p])
        ELSE TRUE

checks(run, f, i, j) == [ p \in Proxies |-> check(run, f, p, i, j) ]

\* A condition that leaves MgCa_check out.
all_checks_but_MgCa(c) == \A p \in Proxies \ { "MgCa" } : c[p]

\* the condition under which the pair is appended to results
all_checks(c) == \A p \in Proxies : c[p]

\* the columns of a row: d13C, and every proxy with measured data
RowCols(f) == { "d13C" } \cup { p \in Proxies : Truthy(f, p) }

\* extended_record.  call, step and index are not columns of the table:
\* they tell which CDA call, model step and timepoint made the row.  The
\* copied fCa, d13C_init and Ca columns are left out.
extended_record(run, f, c, i, j) ==
    [ call |-> c, step |-> i, index |-> j,
      Age |-> age_data(f)[j],
      settings |-> run.settings,
      cols |-> [ p \in RowCols(f) |->
                    [ measured  |-> IF p = "d13C" THEN d13C_value(f, j)
                                    ELSE Some(p_data(f, p)[j]),
                      predicted |-> spel(run, p, i),
                      residual  |-> residual(run, f, p, i, j) ] ] ]

\* all_all_records: 'd13C residual' is the variable left by the matching
\* loop (its last timepoint); the other residuals are measured - predicted.
all_all_records(run, f, c, i, j) ==
    [ call |-> c, step |-> i, index |-> j,
      Age |-> age_data(f)[j],
      settings |-> run.settings,
      cols |-> [ p \in RowCols(f) |->
                    IF p = "d13C"
                    THEN [ measured  |-> d13C_value(f, j),
                           predicted |-> spel(run, p, i),
                           residual  |-> residual(run, f, p, i, Len(age_data(f))) ]
                    ELSE [ measured  |-> Some(p_data(f, p)[j]),
                           predicted |-> spel(run, p, i),
                           residual  |-> Some(p_data(f, p)[j] - Val(spel(run, p, i))) ] ] ]

\* the (step, timepoint) pairs in the order of the two nested loops
PairSeq(n, r) ==
    [ k \in 1..(n * r) |-> << ((k - 1) \div r) + 1, ((k - 1) % r) + 1 >> ]

Pairs(run, f) == PairSeq(NumSteps(run), Len(age_data(f)))

\* the place in Pairs of the first pair that raises, 0 if none does
FirstError(run, f) ==
    LET ps  == Pairs(run, f)
        bad == { k \in 1..Len(ps) : PairError(run, f, ps[k][1], ps[k][2]) # "ok" }
    IN  IF bad = {} THEN 0 ELSE CHOOSE k \in bad : \A m \in bad : k <= m

\* the pairs the loops went through without raising
Processed(run, f) ==
    LET ps == Pairs(run, f)
        fe == FirstError(run, f)
    IN  IF fe = 0 THEN ps ELSE SubSeq(ps, 1, fe - 1)

\* the list 'results' when the loops end or raise
results_of(run, f, c) ==
    LET hit == SelectSeq(Processed(run, f),
                         LAMBDA pr : all_checks(checks(run, f, pr[1], pr[2])))
    IN  [ k \in 1..Len(hit) |-> extended_record(run, f, c, hit[k][1], hit[k][2]) ]

\* the list 'all_record' when the loops end
all_record_of(run, f, c) ==
    LET ps == Pairs(run, f)
    IN  [ k \in 1..Len(ps) |-> all_all_records(run, f, c, ps[k][1], ps[k][2]) ]

checks_of(run, f) ==
    LET ps == Processed(run, f)
    IN  [ pr \in { ps[k] : k \in 1..Len(ps) } |-> checks(run, f, pr[1], pr[2]) ]

(***************************************************************************)
(* Part II: PostProcessor.CDA -- the tables                                *)
(***************************************************************************)
\* An All_outputs.csv that is written anew at every call.
write_all_outputs_anew(csv, rows) ==
    [ exists |-> TRUE, header_lines |-> 1, rows |-> rows ]

\* An All_outputs.csv that is appended to with its header.
write_all_outputs_header(csv, rows) ==
    IF ~csv.exists
    THEN [ exists |-> TRUE, header_lines |-> 1, rows |-> rows ]
    ELSE [ csv EXCEPT !.header_lines = @ + 1, !.rows = @ \o rows ]

\* All_outputs.csv: to_csv with its header if the file is not there, else
\* to_csv(mode='a', header=False)
write_all_outputs(csv, rows) ==
    IF ~csv.exists
    THEN [ exists |-> TRUE, header_lines |-> 1, rows |-> rows ]
    ELSE [ csv EXCEPT !.rows = @ \o rows ]

\* Tolerances.csv: written anew, whether it is there or not
write_tolerances(run) ==
    [ exists |-> TRUE, header_lines |-> 1, rows |-> << run.tolerance >> ]

MinOf(S) == CHOOSE x \in S : \A y \in S : x <= y

MaxOf(S) == CHOOSE x \in S : \A y \in S : x >= y

\* Input_Ranges.csv: input_ranges_df, whose Minimum and Maximum are None, if
\* the file is not there; else the file's table with every Minimum and
\* Maximum updated by eval(variable), the run's setting
write_input_ranges(csv, run) ==
    IF ~csv.exists
    THEN [ exists |-> TRUE, header_lines |-> 1,
           rows |-> << [ v \in Gkeys |-> [ Minimum |-> None, Maximum |-> None ] ] >> ]
    ELSE [ csv EXCEPT !.rows =
             << [ v \in Gkeys |->
                    [ Minimum |-> Some(MinOf(@[1][v].Minimum \cup { run.settings[v] })),
                      Maximum |-> Some(MaxOf(@[1][v].Maximum \cup { run.settings[v] })) ] ] >> ]

\* Matches.csv: self.results_df, empty when CDA is called, joined with the
\* new results and written like All_outputs.csv
write_matches(csv, rows) ==
    IF ~csv.exists
    THEN [ exists |-> TRUE, header_lines |-> 1, rows |-> rows ]
    ELSE [ csv EXCEPT !.rows = @ \o rows ]

\* The to_csv calls in the order the claim gives them.
write_order_tolerances_first(match_found, eval_ok) ==
    << "Tolerances" >>
    \o (IF eval_ok
        THEN << "Input_Ranges", "All_outputs" >>
             \o (IF match_found THEN << "Matches" >> ELSE << >>)
        ELSE << >>)

\* The to_csv calls of a CDA call that went through its loops, in program
\* order: All_outputs.csv, Tolerances.csv, then Input_Ranges.csv unless
\* eval(variable) raised, then Matches.csv under 'if match_found:'.
write_order(match_found, eval_ok) ==
    << "All_outputs", "Tolerances" >>
    \o (IF eval_ok
        THEN << "Input_Ranges" >>
             \o (IF match_found THEN << "Matches" >> ELSE << >>)
        ELSE << >>)

\* where a CDA call ends before its loops
EarlyOutcome(run, f) ==
    IF ~run.user_filepath THEN "no_filepath"
    ELSE IF ~f.has_age THEN "read_error"
    ELSE IF run.precipitate_mineralogy \notin { "Calcite", "Aragonite" }
    THEN "unknown_mineralogy"
    ELSE "matching"

(***************************************************************************)
(* Part II: actions                                                        *)
(***************************************************************************)
InitCDA ==
    /\ \E sc \in Scenarios :
        /\ meas_file = sc.file
        /\ cda_batch = sc.batch
    /\ cda_k = 0
    /\ dir_exists = FALSE
    /\ tolerances_csv = Absent
    /\ input_ranges_csv = Absent
    /\ all_outputs_csv = Absent
    /\ matches_csv = Absent
    /\ outcome = "none"
    /\ last_results = << >>
    /\ last_all = << >>
    /\ last_checks = << >>
    /\ last_writes = << >>

\* CDA returns before the loops: the directory 'CDA Results' has been made,
\* then user_filepath is empty, or reading the file raised (no age column:
\* caught, printed), or the mineralogy is not a key of keys_map.
CDAReturnsEarly ==
    /\ cda_k < Len(cda_batch)
    /\ LET run == cda_batch[cda_k + 1]
       IN  /\ EarlyOutcome(run, meas_file) # "matching"
           /\ outcome' = EarlyOutcome(run, meas_file)
    /\ cda_k' = cda_k + 1
    /\ dir_exists' = TRUE
    /\ last_results' = << >>
    /\ last_all' = << >>
    /\ last_checks' = << >>
    /\ last_writes' = << >>
    /\ UNCHANGED << meas_file, cda_batch, tolerances_csv, input_ranges_csv,
                    all_outputs_csv, matches_csv >>
    /\ UNCHANGED << fmVars, utilVars >>

\* CDA raises in its loops: an IndexError or a TypeError of a residual
\* statement or of d44Ca_check.  Nothing has been written.
CDARaises ==
    /\ cda_k < Len(cda_batch)
    /\ LET run == cda_batch[cda_k + 1]
           f   == meas_file
           fe  == FirstError(run, f)
       IN  /\ EarlyOutcome(run, f) = "matching"
           /\ fe # 0
           /\ outcome' = PairError(run, f, Pairs(run, f)[fe][1], Pairs(run, f)[fe][2])
           /\ last_results' = results_of(run, f, cda_k + 1)
           /\ last_checks' = checks_of(run, f)
    /\ cda_k' = cda_k + 1
    /\ dir_exists' = TRUE
    /\ last_all' = << >>
    /\ last_writes' = << >>
    /\ UNCHANGED << meas_file, cda_batch, tolerances_csv, input_ranges_csv,
                    all_outputs_csv, matches_csv >>
    /\ UNCHANGED << fmVars, utilVars >>

\* CDA goes through its loops and writes the tables: All_outputs.csv, then
\* Tolerances.csv, then Input_Ranges.csv, then Matches.csv if a match was
\* found.  The update of an existing Input_Ranges.csv reads the settings
\* with eval(variable) after locals().update(settings): whether eval sees
\* them depends on the interpreter (the names are there up to CPython 3.12;
\* from 3.13 on locals() is a snapshot and eval raises NameError).
CDAPersists ==
    /\ cda_k < Len(cda_batch)
    /\ LET run == cda_batch[cda_k + 1]
           f   == meas_file
           res == results_of(run, f, cda_k + 1)
           all == all_record_of(run, f, cda_k + 1)
       IN  /\ EarlyOutcome(run, f) = "matching"
           /\ FirstError(run, f) = 0
           /\ last_results' = res
           /\ last_all' = all
           /\ last_checks' = checks_of(run, f)
           /\ all_outputs_csv' = write_all_outputs(all_outputs_csv, all)
           /\ tolerances_csv' = write_tolerances(run)
           /\ \E eval_sees_settings \in IF input_ranges_csv.exists THEN BOOLEAN ELSE { TRUE } :
                IF eval_sees_settings
                THEN /\ input_ranges_csv' = write_input_ranges(input_ranges_csv, run)
                     /\ matches_csv' = IF res # << >> THEN write_matches(matches_csv, res)
                                       ELSE matches_csv
                     /\ outcome' = "returned"
                     /\ last_writes' = write_order(res # << >>, TRUE)
                ELSE /\ input_ranges_csv' = input_ranges_csv
                     /\ matches_csv' = matches_csv
                     /\ outcome' = "NameError"
                     /\ last_writes' = write_order(res # << >>, FALSE)
    /\ cda_k' = cda_k + 1
    /\ dir_exists' = TRUE
    /\ UNCHANGED << meas_file, cda_batch >>
    /\ UNCHANGED << fmVars, utilVars >>

NextCDA ==
    \/ CDAReturnsEarly
    \/ CDARaises
    \/ CDAPersists

\* No batch has been constructed; a measured file and the runs to
\* post-process are chosen.
InitPost == InitFM /\ InitCDA /\ IdlePP /\ IdleDB /\ IdleEval

\* Model runs post-processed one after another in one output directory.
SpecCDA == InitPost /\ [][NextCDA]_vars

(***************************************************************************)
(* Part II: claims                                                         *)
(***************************************************************************)
\* the run of the CDA call made last
LastRun == cda_batch[cda_k]

\* the file has a measured value of proxy p at timepoint j
HasMeasured(p, j) == Truthy(meas_file, p) /\ j <= Len(p_data(meas_file, p))

\* |predicted - measured| of proxy p for step i of run and timepoint j
Deviation(run, p, i, j) == Abs(Val(spel(run, p, i)) - p_data(meas_file, p)[j])

\* the rows of a table made for step i and timepoint j by call c
RowsOf(rows, c, i, j) ==
    { k \in 1..Len(rows) : rows[k].call = c /\ rows[k].step = i /\ rows[k].index = j }

\* C6: a residual whose absolute value equals the tolerance passes its
\* check -- for every pair the loops went through and every proxy with a
\* measured value there, |predicted - measured| = tolerance makes the
\* proxy's check true.
C6_BoundaryPasses ==
    \A pr \in DOMAIN last_checks : \A p \in Proxies :
        ( /\ HasMeasured(p, pr[2])
          /\ spel(LastRun, p, pr[1]) # None
          /\ Deviation(LastRun, p, pr[1], pr[2]) = LastRun.tolerance[p] )
        => last_checks[pr][p]

\* a call has ended with a pair on the tolerance of a proxy, and the pair is
\* a row of Matches.csv
C6_Witness ==
    /\ outcome = "returned"
    /\ \E pr \in DOMAIN last_checks : \E p \in Proxies :
        /\ HasMeasured(p, pr[2])
        /\ spel(LastRun, p, pr[1]) # None
        /\ Deviation(LastRun, p, pr[1], pr[2]) = LastRun.tolerance[p]
        /\ LastRun.tolerance[p] > 0
        /\ RowsOf(matches_csv.rows, cda_k, pr[1], pr[2]) # {}

\* the rows of the match results of the last call and of Matches.csv
MatchRows == last_results \o (IF matches_csv.exists THEN matches_csv.rows ELSE << >>)

\* C7: a pair is appended to the match results only if all eight checks
\* pass -- every row of the results and of Matches.csv was made by a pair
\* whose every proxy with measured data deviates by no more than its
\* tolerance, so a pair within tolerance on d13C and outside on Mg/Ca is no
\* row.
C7_MatchPassesEveryCheck ==
    /\ \A k \in 1..Len(last_results) :
        LET pr == << last_results[k].step, last_results[k].index >>
        IN  pr \in DOMAIN last_checks /\ \A p \in Proxies : last_checks[pr][p]
    /\ \A k \in 1..Len(MatchRows) :
        LET row == MatchRows[k]
        IN  \A p \in Proxies :
                Truthy(meas_file, p) =>
                    /\ HasMeasured(p, row.index)
                    /\ spel(cda_batch[row.call], p, row.step) # None
                    /\ Deviation(cda_batch[row.call], p, row.step, row.index)
                           <= cda_batch[row.call].tolerance[p]

\* a pair within tolerance on d13C and outside it on Mg/Ca was gone through
\* and is no row, while another pair of the call is one
C7_Witness ==
    /\ outcome = "returned"
    /\ last_results # << >>
    /\ \E pr \in DOMAIN last_checks :
        /\ HasMeasured("d13C", pr[2]) /\ HasMeasured("MgCa", pr[2])
        /\ Deviation(LastRun, "d13C", pr[1], pr[2]) <= LastRun.tolerance["d13C"]
        /\ spel(LastRun, "MgCa", pr[1]) # None
        /\ Deviation(LastRun, "MgCa", pr[1], pr[2]) > LastRun.tolerance["MgCa"]
        /\ RowsOf(last_results, cda_k, pr[1], pr[2]) = {}

\* the measured file has an age column and a d13C column and no other
OnlyD13C == meas_file.has_age /\ meas_file.cols = { "d13C" }

\* C8: with only age and d13C measured, a step whose predicted d13C is
\* within tolerance of the measured d13C of a timepoint is a row of the
\* match results, whatever its other predicted values are.
C8_OnlyD13CDecides ==
    ( OnlyD13C /\ cda_k >= 1 /\ EarlyOutcome(LastRun, meas_file) = "matching" ) =>
        \A i \in 1..NumSteps(LastRun) : \A j \in 1..Len(age_data(meas_file)) :
            ( /\ LastRun.output["d13C"][i] # None
              /\ HasMeasured("d13C", j)
              /\ Deviation(LastRun, "d13C", i, j) <= LastRun.tolerance["d13C"] )
            => RowsOf(last_results, cda_k, i, j) # {}

\* a row was made from d13C alone by a step that predicts no other proxy,
\* and a step of the same run that is off on d13C made none
C8_Witness ==
    /\ OnlyD13C /\ outcome = "returned"
    /\ \E k \in 1..Len(matches_csv.rows) :
        \A p \in Proxies \ { "d13C" } :
            LastRun.output[p][matches_csv.rows[k].step] = None
    /\ \E pr \in DOMAIN last_checks : RowsOf(last_results, cda_k, pr[1], pr[2]) = {}

\* C9: a check whose predicted or measured value is missing passes, and no
\* missing value ends the run with an error.
C9_MissingValuePasses ==
    /\ outcome \notin { "TypeError", "IndexError" }
    /\ \A pr \in DOMAIN last_checks : \A p \in Proxies :
        ( LastRun.output[p][pr[1]] = None \/ ~HasMeasured(p, pr[2]) )
        => last_checks[pr][p]

\* C10: two calls that reach the writing of the tables leave, in
\* All_outputs.csv, the rows of the first followed by the rows of the second
\* under one header line -- every such call appends its rows to the rows
\* that were there and leaves one header; no other call touches the file.
C10_AllOutputsAccumulate ==
    [][ IF cda_k' # cda_k /\ outcome' \in { "returned", "NameError" }
        THEN /\ all_outputs_csv'.exists
             /\ all_outputs_csv'.header_lines = 1
             /\ all_outputs_csv'.rows =
                    (IF all_outputs_csv.exists THEN all_outputs_csv.rows ELSE << >>)
                    \o all_record_of(cda_batch[cda_k'], meas_file, cda_k')
        ELSE all_outputs_csv' = all_outputs_csv ]_vars

\* two calls with different settings have written: rows of the first come
\* before rows of the second under one header line
C10_Witness ==
    /\ cda_k = 2
    /\ all_outputs_csv.exists /\ all_outputs_csv.header_lines = 1
    /\ \E a, b \in 1..Len(all_outputs_csv.rows) :
        /\ a < b
        /\ all_outputs_csv.rows[a].call = 1
        /\ all_outputs_csv.rows[b].call = 2
        /\ all_outputs_csv.rows[a].settings # all_outputs_csv.rows[b].settings

\* call k went through its loops and reached the writing of the tables
Wrote(k) ==
    /\ EarlyOutcome(cda_batch[k], meas_file) = "matching"
    /\ FirstError(cda_batch[k], meas_file) = 0

\* the values of input variable v over the calls that have written so far
SeenValues(v) == { cda_batch[k].settings[v] : k \in { n \in 1..cda_k : Wrote(n) } }

\* C11: after one or more CDA calls in one directory, the Minimum and the
\* Maximum of every swept input variable in Input_Ranges.csv are the least
\* and the greatest value of the variable over all the runs that have
\* written there, the first included.
C11_InputRangesRunning ==
    input_ranges_csv.exists =>
        \A v \in Gkeys :
            /\ input_ranges_csv.rows[1][v].Minimum = Some(MinOf(SeenValues(v)))
            /\ input_ranges_csv.rows[1][v].Maximum = Some(MaxOf(SeenValues(v)))

\* C12: a call with an empty user_filepath is a no-op -- the directory
\* 'CDA Results' and the tables exist only if some call so far had a
\* user_filepath.
C12_NoFilepathNoOp ==
    ( \A k \in 1..cda_k : ~cda_batch[k].user_filepath ) =>
        /\ ~dir_exists
        /\ ~tolerances_csv.exists /\ ~input_ranges_csv.exists
        /\ ~all_outputs_csv.exists /\ ~matches_csv.exists
        /\ last_results = << >>

\* C13: with a measured file that has no age column, a call that reads the
\* file ends with an error and does not return normally.
C13_NoAgeIsFatal ==
    ( cda_k >= 1 /\ LastRun.user_filepath /\ ~meas_file.has_age ) =>
        outcome \in { "KeyError", "IndexError", "TypeError", "ValueError" }

\* C20: a model step whose predicted d13C is missing makes no row of the
\* match results, whatever columns the measured file has.
C20_MissingD13CNoMatch ==
    \A k \in 1..Len(MatchRows) :
        cda_batch[MatchRows[k].call].output["d13C"][MatchRows[k].step] # None

\* the place of table t in the sequence order
PlaceIn(order, t) == CHOOSE n \in 1..Len(order) : order[n] = t

\* the tables of w come in the order of the sequence order
InOrder(w, order) ==
    \A a, b \in 1..Len(w) : a < b => PlaceIn(order, w[a]) < PlaceIn(order, w[b])

\* C21 as stated: within one CDA call the tables are written in the order
\* Tolerances, Input-Ranges, All-Outputs, Matches, and Matches only when the
\* call produced a match.
C21_TolerancesFirst ==
    /\ InOrder(last_writes, << "Tolerances", "Input_Ranges", "All_outputs", "Matches" >>)
    /\ "Matches" \in Range(last_writes) => last_results # << >>

\* C21: within one CDA call the tables are written in the order All-Outputs,
\* Tolerances, Input-Ranges, Matches; a call that returns has written the
\* first three, and Matches is written only when the call produced a match,
\* so Matches.csv exists only with a row in it.
C21_WriteOrder ==
    /\ InOrder(last_writes, << "All_outputs", "Tolerances", "Input_Ranges", "Matches" >>)
    /\ outcome = "returned" => Len(last_writes) >= 3
    /\ "Matches" \in Range(last_writes) <=> (outcome = "returned" /\ last_results # << >>)
    /\ matches_csv.exists => matches_csv.rows # << >>

\* a call with a match has written the four tables, and a call before it,
\* without a match, wrote three and made no Matches.csv
C21_Witness ==
    /\ cda_k = 2 /\ outcome = "returned"
    /\ Len(last_writes) = 4
    /\ \A k \in 1..Len(matches_csv.rows) : matches_csv.rows[k].call = 2
    /\ Wrote(1)

\* the residual a row of a table should hold: predicted - measured
RowResidual(col) ==
    IF col.measured = None \/ col.predicted = None THEN None
    ELSE Some(Val(col.predicted) - Val(col.measured))

\* C23: a call that reaches the writing of the tables adds to All_outputs.csv
\* exactly one row per (step, timepoint), whatever the match outcome, and
\* every residual of the row, d13C included, is predicted - measured of the
\* row's own step and timepoint.
C23_AllOutputsRowResiduals ==
    ( cda_k >= 1 /\ outcome \in { "returned", "NameError" } ) =>
        \A i \in 1..NumSteps(LastRun) : \A j \in 1..Len(age_data(meas_file)) :
            /\ Cardinality(RowsOf(last_all, cda_k, i, j)) = 1
            /\ \A k \in RowsOf(last_all, cda_k, i, j) : \A p \in DOMAIN last_all[k].cols :
                    last_all[k].cols[p].residual = RowResidual(last_all[k].cols[p])

\* C26: the measured value of a proxy in a row made for the timepoint of age
\* a is the file's cell of that proxy in the row of age a, also when cells
\* are empty, and a proxy column with fewer cells than the age column raises
\* no IndexError.
C26_MeasuredFromAgeRow ==
    /\ outcome # "IndexError"
    /\ \A k \in 1..Len(last_all \o last_results) :
        LET row == (last_all \o last_results)[k]
        IN  \A p \in DOMAIN row.cols \cap meas_file.cols :
                row.cols[p].measured = meas_file.cell[p][row.Age]

\* C28: over the calls made in one directory, every (step, timepoint) of a
\* call that passed all checks is a row of Matches.csv exactly once.
C28_MatchedRowsWrittenOnce ==
    \A c \in 1..cda_k :
        Wrote(c) =>
            \A i \in 1..NumSteps(cda_batch[c]) : \A j \in 1..Len(age_data(meas_file)) :
                all_checks(checks(cda_batch[c], meas_file, i, j)) =>
                    /\ matches_csv.exists
                    /\ Cardinality(RowsOf(matches_csv.rows, c, i, j)) = 1

(***************************************************************************)
(* Part III: PostProcessor.__init__ -- the methods run before CDA          *)
(*                                                                         *)
(* An entry of an output series is a number (fixed point, Unit is 1.0), a  *)
(* string, None or NaN.  The amounts of Ca and of the trace elements are   *)
(* a few 1e-5 mol/kgw; R14C is in pMC.                                     *)
(***************************************************************************)
Num(n) == [ kind |-> "num", num |-> n, str |-> "" ]

Str(t) == [ kind |-> "str", num |-> 0, str |-> t ]

Missing == [ kind |-> "None", num |-> 0, str |-> "" ]

NaN == [ kind |-> "nan", num |-> 0, str |-> "" ]

trace_elements == { "Ba", "Sr", "Mg", "U" }

Mineralogies == { "Calcite", "Aragonite", "Dolomite" }

\* 'word in desc' for the step descriptions of the runs examined
Contains(desc, word) ==
    \/ desc = word
    \/ desc = "dissolve_bedrock" /\ word \in { "dissolve", "bedrock" }

\* Where the bedrock is dissolved: << first, second >> step tagged
\* 'dissolve_bedrock', 0 for no second one.  Step 1, step 2 after a soil
\* step, or steps 1 and 2.
BedrockPlans == { << 1, 0 >>, << 2, 0 >>, << 1, 2 >> }

\* a series that starts at v0 and loses dv at every step, never below 0
Falling(v0, dv) ==
    [ i \in 1..MaxSeries |-> Num(IF v0 - dv * (i - 1) < 0 THEN 0 ELSE v0 - dv * (i - 1)) ]

\* the default returns of the solver, and a neighbour of them
Sentinels == { -1000 * Unit, -999 * Unit, -998 * Unit, 5 * Unit }

\* The output of a Simulator: bedrock dissolution at the steps of the plan
\* bed, a soil step before the first of them, then degassing up to step
\* p - 1 and calcite precipitation from step p on; Ca and the trace
\* elements fall from c0 and x0; R14C falls from 100 pMC by 1 a step; one
\* entry of the d13C series and of the R14C series takes a sentinel value.
RawOutput(m, p, c0, cd, x0, xd, pos, lv, bed) ==
    [ k \in { "step_desc", "mass_H2O", "Ca(mol/kgw)", "C(mol/kgw)",
              "I_R(18O)_" \o m, "I_R(13C)_" \o m, "I_R(14C)" }
            \cup { x \o "(mol/kgw)" : x \in trace_elements } |->
        IF k = "step_desc"
        THEN [ i \in 1..MaxSeries |->
                 Str(IF i = bed[1] \/ i = bed[2] THEN "dissolve_bedrock"
                     ELSE IF i < bed[1] THEN "soil"
                     ELSE IF i < p THEN "degas" ELSE "CaCO3_precipitation") ]
        ELSE IF k = "I_R(14C)"
        THEN [ i \in 1..MaxSeries |-> Num(IF i = pos THEN lv ELSE (101 - i) * Unit) ]
        ELSE IF k = "mass_H2O" THEN [ i \in 1..MaxSeries |-> Num(Unit) ]
        ELSE IF k = "Ca(mol/kgw)" THEN Falling(c0, cd)
        ELSE IF k = "C(mol/kgw)" THEN Falling(2, 0)
        ELSE IF k = "I_R(18O)_" \o m THEN [ i \in 1..MaxSeries |-> Num(5 * Unit) ]
        ELSE IF k = "I_R(13C)_" \o m
        THEN [ i \in 1..MaxSeries |-> Num(IF i = pos THEN lv ELSE 5 * Unit) ]
        ELSE Falling(x0, xd) ]

RawOutputs(m) ==
    { RawOutput(m, p, c0, cd, x0, xd, pos, lv, bed) :
        p \in 2..(MaxSeries + 1), c0 \in 0..2, cd \in 0..1, x0 \in 0..2, xd \in 0..1,
        pos \in 1..MaxSeries, lv \in Sentinels, bed \in BedrockPlans }

\* self.s.output[k] = v
SetKey(out, k, v) == [ x \in DOMAIN out \cup { k } |-> IF x = k THEN v ELSE out[x] ]

\* a * b of two fixed-point numbers, b a whole number of Units
Times(a, b) == a * (b \div Unit)

\* n / d of two fixed-point numbers, d not 0
Quot(n, d) ==
    LET nn == IF d < 0 THEN -n ELSE n
        dd == IF d < 0 THEN -d ELSE d
    IN  IF nn < 0 THEN -((-nn * Unit) \div dd) ELSE (nn * Unit) \div dd

\* output_filter(self.s.output, 'step_desc', 'dissolve')[key][0]
FirstDissolve(out, key) ==
    LET inds == { i \in 1..Len(out["step_desc"]) :
                    Contains(out["step_desc"][i].str, "dissolve") }
    IN  out[key][CHOOSE i \in inds : \A j \in inds : i <= j].num

\* calculate_f raises ZeroDivisionError: x / init_ca or x / init_c with 0
calculate_f_raises(out) ==
    FirstDissolve(out, "Ca(mol/kgw)") = 0 \/ FirstDissolve(out, "C(mol/kgw)") = 0

calculate_f(out) ==
    LET init_ca == FirstDissolve(out, "Ca(mol/kgw)")
        init_c  == FirstDissolve(out, "C(mol/kgw)")
        ca == out["Ca(mol/kgw)"]
        c  == out["C(mol/kgw)"]
    IN  SetKey(SetKey(out, "f_ca", [ i \in 1..Len(ca) |-> Num(Quot(ca[i].num, init_ca)) ]),
               "f_c", [ i \in 1..Len(c) |-> Num(Quot(c[i].num, init_c)) ])

\* A VSMOW_to_VPDB that leaves the first two steps out of 'd18O_PDB'.
VSMOW_to_VPDB_short(out, m) ==
    IF out = << >> \/ m \notin { "Calcite", "Aragonite" } THEN out
    ELSE LET key == "I_R(18O)_" \o m
         IN  IF key \notin DOMAIN out \/ out[key] = << >> THEN out
             ELSE SetKey(out, "d18O_PDB",
                         [ i \in 1..(Len(out[key]) - 2) |->
                             IF out[key][i + 2].kind = "None" THEN NaN
                             ELSE Num(d18O_to_VPDB(out[key][i + 2].num)) ])

\* VSMOW_to_VPDB: 'd18O_PDB', NaN at the first two steps; nothing for a
\* mineralogy that is neither Calcite nor Aragonite (printed, returned)
VSMOW_to_VPDB(out, m) ==
    IF out = << >> \/ m \notin { "Calcite", "Aragonite" } THEN out
    ELSE LET key == "I_R(18O)_" \o m
         IN  IF key \notin DOMAIN out \/ out[key] = << >> THEN out
             ELSE SetKey(out, "d18O_PDB",
                         [ i \in 1..Len(out[key]) |->
                             IF i <= 2 \/ out[key][i].kind = "None" THEN NaN
                             ELSE Num(d18O_to_VPDB(out[key][i].num)) ])

\* i - 1 as a Python list index: -1 is the last entry
Prev(i, n) == IF i = 1 THEN n ELSE i - 1

\* A ratio that is NaN where the denominator is 0.
XCaRatio_unguarded(n, d) == IF d = 0 THEN NaN ELSE Num(Quot(n, d))

\* try: append(n / d) except ZeroDivisionError: append(0)
XCaRatio(n, d) == IF d = 0 THEN Num(0) ELSE Num(Quot(n, d))

\* dissolved_ca at step i
dissolved_ca(out, i) == Times(out["Ca(mol/kgw)"][i].num, out["mass_H2O"][i].num)

\* solid_ca at a precipitation step i
solid_ca(out, i) ==
    LET n == Len(out["step_desc"])
    IN  dissolved_ca(out, i) - dissolved_ca(out, Prev(i, n))

IsPrecipitation(out, i) == Contains(out["step_desc"][i].str, "CaCO3_precipitation")

\* x_dissolved at step i
x_dissolved(out, x, i) == Times(out[x \o "(mol/kgw)"][i].num, out["mass_H2O"][i].num)

\* dissolved_ratios[x][i]
dissolved_ratio(out, x, i) == XCaRatio(x_dissolved(out, x, i), dissolved_ca(out, i))

\* precipitate_ratios[x][i]
precipitate_ratio(out, x, i) ==
    IF IsPrecipitation(out, i)
    THEN XCaRatio(x_dissolved(out, x, i)
                    - x_dissolved(out, x, Prev(i, Len(out["step_desc"]))),
                  solid_ca(out, i))
    ELSE Num(0)

\* the suffix of the key of the precipitate ratios
precipitate_suffix(m) == IF m = "Calcite" THEN "_Calcite" ELSE "_Aragonite"

calculate_XCa(out, m) ==
    LET n  == Len(out["step_desc"])
        dk == { x \o "/Ca(mol/mol)" : x \in trace_elements }
        pk == { x \o "/Ca(mol/mol)" \o precipitate_suffix(m) : x \in trace_elements }
    IN  [ k \in DOMAIN out \cup dk \cup pk |->
            IF k \in dk
            THEN LET x == CHOOSE y \in trace_elements : k = y \o "/Ca(mol/mol)"
                 IN  [ i \in 1..n |-> dissolved_ratio(out, x, i) ]
            ELSE IF k \in pk
            THEN LET x == CHOOSE y \in trace_elements :
                            k = y \o "/Ca(mol/mol)" \o precipitate_suffix(m)
                 IN  [ i \in 1..n |-> precipitate_ratio(out, x, i) ]
            ELSE out[k] ]

\* value * 0.001 if value is not None else None
Milli(e) ==
    IF e.kind = "None" THEN Missing
    ELSE Num(IF e.num < 0 THEN -((-e.num) \div 1000) ELSE e.num \div 1000)

\* (self.s.output.get(key) or []) scaled
MilliSeries(out, key) ==
    IF key \in DOMAIN out THEN [ i \in 1..Len(out[key]) |-> Milli(out[key][i]) ] ELSE << >>

\* A UCa_mmol_to_mol that is applied a second time to its own result.
UCa_mmol_to_mol_twice(out, m) ==
    IF m \in { "Calcite", "Aragonite" }
    THEN LET once == SetKey(SetKey(out, "U/Ca(mol/mol)_" \o m,
                                   MilliSeries(out, "U/Ca(mol/mol)_" \o m)),
                            "U/Ca(mol/mol)", MilliSeries(out, "U/Ca(mol/mol)"))
         IN  SetKey(SetKey(once, "U/Ca(mol/mol)_" \o m,
                           MilliSeries(once, "U/Ca(mol/mol)_" \o m)),
                    "U/Ca(mol/mol)", MilliSeries(once, "U/Ca(mol/mol)"))
    ELSE out

UCa_mmol_to_mol(out, m) ==
    IF m \in { "Calcite", "Aragonite" }
    THEN SetKey(SetKey(out, "U/Ca(mol/mol)_" \o m, MilliSeries(out, "U/Ca(mol/mol)_" \o m)),
                "U/Ca(mol/mol)", MilliSeries(out, "U/Ca(mol/mol)"))
    ELSE out

\* the new name of a key: I_R(18O)_X becomes d18O_X, I_R(13C)_X d13C_X,
\* I_R(14C) R14C
TidyName(k) ==
    IF k = "I_R(14C)" THEN "R14C"
    ELSE IF \E m \in Mineralogies : k = "I_R(18O)_" \o m
    THEN "d18O_" \o (CHOOSE m \in Mineralogies : k = "I_R(18O)_" \o m)
    ELSE IF \E m \in Mineralogies : k = "I_R(13C)_" \o m
    THEN "d13C_" \o (CHOOSE m \in Mineralogies : k = "I_R(13C)_" \o m)
    ELSE k

\* tidy: mass_H2O is popped, the isotope ratios are renamed
tidy(out) ==
    LET kept == DOMAIN out \ { "mass_H2O" }
    IN  [ k2 \in { TidyName(k) : k \in kept } |->
            out[CHOOSE k \in kept : TidyName(k) = k2] ]

\* 'R14C' in key, for the keys of the runs examined
IsR14CKey(k) == k \in { "R14C" } \cup { "R14C_" \o m : m \in Mineralogies }

IsBedrock(out, i) == Contains(out["step_desc"][i].str, "bedrock")

\* The step whose value a step takes if only the first bedrock step counts.
FirstBedrockUpTo(out, i) ==
    LET b == { j \in 1..i : IsBedrock(out, j) }
    IN  IF b = {} THEN 0 ELSE CHOOSE j \in b : \A n \in b : j <= n

\* the step at which pmc was assigned last when the loop is at step i: the
\* latest bedrock-tagged step up to i, 0 if pmc is still None
PmcStep(out, i) ==
    LET b == { j \in 1..i : IsBedrock(out, j) }
    IN  IF b = {} THEN 0 ELSE CHOOSE j \in b : \A n \in b : j >= n

\* (1 - v / atmo_a14c_init) * 100 with atmo_a14c_init = 100
DCPOf(e) == Num((Unit - e.num \div 100) * 100)

\* A calculate_radiocarbon that holds the value of the first bedrock step.
calculate_radiocarbon_first(out) ==
    LET frozen == [ k \in DOMAIN out |->
                      IF IsR14CKey(k)
                      THEN [ i \in 1..Len(out[k]) |->
                               IF FirstBedrockUpTo(out, i) = 0 THEN out[k][i]
                               ELSE out[k][FirstBedrockUpTo(out, i)] ]
                      ELSE out[k] ]
    IN  SetKey(frozen, "DCP", [ i \in 1..Len(frozen["R14C"]) |-> DCPOf(frozen["R14C"][i]) ])

\* calculate_radiocarbon: in every series whose key contains 'R14C', pmc is
\* assigned at every bedrock-tagged step and written to every other step
\* once it is not None; then 'DCP' is computed from 'R14C'
calculate_radiocarbon(out) ==
    LET frozen == [ k \in DOMAIN out |->
                      IF IsR14CKey(k)
                      THEN [ i \in 1..Len(out[k]) |->
                               IF IsBedrock(out, i) \/ PmcStep(out, i) = 0
                                  \/ out[k][PmcStep(out, i)].kind = "None"
                               THEN out[k][i]
                               ELSE out[k][PmcStep(out, i)] ]
                      ELSE out[k] ]
    IN  SetKey(frozen, "DCP", [ i \in 1..Len(frozen["R14C"]) |-> DCPOf(frozen["R14C"][i]) ])

\* An entry set to None only below -999.
set_none_below(e) == IF e.kind = "num" /\ e.num < -999 * Unit THEN Missing ELSE e

\* not(isinstance(e, str)) and e <= -999; a comparison with NaN is False
set_none_entry(e) == IF e.kind = "num" /\ e.num <= -999 * Unit THEN Missing ELSE e

set_none(out) ==
    [ k \in DOMAIN out |-> [ i \in 1..Len(out[k]) |-> set_none_entry(out[k][i]) ] ]

(***************************************************************************)
(* Part III: PostProcessor.__init__ -- actions, one per method             *)
(***************************************************************************)
\* self.s = Simulator
NewPostProcessor ==
    /\ pp_pc = "init"
    /\ pp_mineralogy \in Mineralogies
    /\ pp_output \in RawOutputs(pp_mineralogy)
    /\ pp_prev = pp_output
    /\ pp_error = "none"

\* self.calculate_f()
PP_calculate_f ==
    /\ pp_pc = "init"
    /\ pp_error = "none"
    /\ pp_prev' = pp_output
    /\ IF calculate_f_raises(pp_output)
       THEN /\ pp_error' = "ZeroDivisionError"
            /\ pp_output' = pp_output
       ELSE /\ pp_error' = pp_error
            /\ pp_output' = calculate_f(pp_output)
    /\ pp_pc' = "calculate_f"
    /\ UNCHANGED pp_mineralogy
    /\ UNCHANGED << fmVars, cdaVars, dbVars, evVars >>

\* self.VSMOW_to_VPDB()
PP_VSMOW_to_VPDB ==
    /\ pp_pc = "calculate_f"
    /\ pp_error = "none"
    /\ pp_prev' = pp_output
    /\ pp_output' = VSMOW_to_VPDB(pp_output, pp_mineralogy)
    /\ pp_pc' = "VSMOW_to_VPDB"
    /\ pp_error' = pp_error
    /\ UNCHANGED pp_mineralogy
    /\ UNCHANGED << fmVars, cdaVars, dbVars, evVars >>

\* self.calculate_XCa()
PP_calculate_XCa ==
    /\ pp_pc = "VSMOW_to_VPDB"
    /\ pp_error = "none"
    /\ pp_prev' = pp_output
    /\ pp_output' = calculate_XCa(pp_output, pp_mineralogy)
    /\ pp_pc' = "calculate_XCa"
    /\ pp_error' = pp_error
    /\ UNCHANGED pp_mineralogy
    /\ UNCHANGED << fmVars, cdaVars, dbVars, evVars >>

\* self.UCa_mmol_to_mol()
PP_UCa_mmol_to_mol ==
    /\ pp_pc = "calculate_XCa"
    /\ pp_error = "none"
    /\ pp_prev' = pp_output
    /\ pp_output' = UCa_mmol_to_mol(pp_output, pp_mineralogy)
    /\ pp_pc' = "UCa_mmol_to_mol"
    /\ pp_error' = pp_error
    /\ UNCHANGED pp_mineralogy
    /\ UNCHANGED << fmVars, cdaVars, dbVars, evVars >>

\* self.tidy()
PP_tidy ==
    /\ pp_pc = "UCa_mmol_to_mol"
    /\ pp_error = "none"
    /\ pp_prev' = pp_output
    /\ pp_output' = tidy(pp_output)
    /\ pp_pc' = "tidy"
    /\ pp_error' = pp_error
    /\ UNCHANGED pp_mineralogy
    /\ UNCHANGED << fmVars, cdaVars, dbVars, evVars >>

\* self.calculate_radiocarbon()
PP_calculate_radiocarbon ==
    /\ pp_pc = "tidy"
    /\ pp_error = "none"
    /\ pp_prev' = pp_output
    /\ pp_output' = calculate_radiocarbon(pp_output)
    /\ pp_pc' = "calculate_radiocarbon"
    /\ pp_error' = pp_error
    /\ UNCHANGED pp_mineralogy
    /\ UNCHANGED << fmVars, cdaVars, dbVars, evVars >>

\* self.set_none(); self.CDA() follows (Part II)
PP_set_none ==
    /\ pp_pc = "calculate_radiocarbon"
    /\ pp_error = "none"
    /\ pp_prev' = pp_output
    /\ pp_output' = set_none(pp_output)
    /\ pp_pc' = "set_none"
    /\ pp_error' = pp_error
    /\ UNCHANGED pp_mineralogy
    /\ UNCHANGED << fmVars, cdaVars, dbVars, evVars >>

NextPP ==
    \/ PP_calculate_f
    \/ PP_VSMOW_to_VPDB
    \/ PP_calculate_XCa
    \/ PP_UCa_mmol_to_mol
    \/ PP_tidy
    \/ PP_calculate_radiocarbon
    \/ PP_set_none

InitPP == InitFM /\ IdleCDA /\ NewPostProcessor /\ IdleDB /\ IdleEval

\* The post-processing of one Simulator, method after method.
SpecPP == InitPP /\ [][NextPP]_vars

(***************************************************************************)
(* Part III: claims on PostProcessor.__init__                              *)
(***************************************************************************)
\* the methods that come after the first reading of the mineralogy
AfterMineralogyRead ==
    { "VSMOW_to_VPDB", "calculate_XCa", "UCa_mmol_to_mol", "tidy",
      "calculate_radiocarbon", "set_none" }

\* C14: with a mineralogy that is neither Calcite nor Aragonite the
\* post-processing raises at once -- no method that reads the mineralogy
\* ends without an error, and no series is stored under a key qualified by
\* Calcite or Aragonite.
C14_UnknownMineralogyRaises ==
    ( pp_mineralogy \notin { "", "Calcite", "Aragonite" } /\ pp_pc \in AfterMineralogyRead ) =>
        /\ pp_error # "none"
        /\ \A x \in trace_elements :
            /\ (x \o "/Ca(mol/mol)_Calcite") \notin DOMAIN pp_output
            /\ (x \o "/Ca(mol/mol)_Aragonite") \notin DOMAIN pp_output

\* C15: after set_none every series has its length, every number that was
\* <= -999 is None, and every number > -999 and every string is as it was,
\* at its place.
C15_SetNone ==
    pp_pc = "set_none" =>
        /\ DOMAIN pp_output = DOMAIN pp_prev
        /\ \A k \in DOMAIN pp_prev :
            /\ Len(pp_output[k]) = Len(pp_prev[k])
            /\ \A i \in 1..Len(pp_prev[k]) :
                LET b == pp_prev[k][i]
                    a == pp_output[k][i]
                IN  /\ (b.kind = "num" /\ b.num <= -999 * Unit) => a.kind = "None"
                    /\ (b.kind = "num" /\ b.num > -999 * Unit) => a = b
                    /\ b.kind = "str" => a = b

\* set_none has run on series that hold a -999, a greater number and a string
C15_Witness ==
    /\ pp_pc = "set_none"
    /\ \E k \in DOMAIN pp_prev : \E i, j \in 1..Len(pp_prev[k]) :
        /\ pp_prev[k][i] = Num(-999 * Unit) /\ pp_output[k][i] = Missing
        /\ pp_prev[k][j].kind = "num" /\ pp_prev[k][j].num > -999 * Unit
        /\ pp_output[k][j] = pp_prev[k][j]
    /\ \E i \in 1..Len(pp_prev["step_desc"]) :
        pp_output["step_desc"][i] = Str("CaCO3_precipitation")

\* C16: calculate_XCa stores exactly 0, and raises nothing, for every trace
\* element at every step whose denominator is 0: the dissolved Ca mass for
\* the dissolved ratio, the change of the Ca mass for the precipitated one.
C16_ZeroDenominatorGivesZero ==
    pp_pc = "calculate_XCa" =>
        /\ pp_error = "none"
        /\ \A x \in trace_elements : \A i \in 1..Len(pp_prev["step_desc"]) :
            /\ pp_prev["Ca(mol/kgw)"][i].num * pp_prev["mass_H2O"][i].num = 0
                => pp_output[x \o "/Ca(mol/mol)"][i] = Num(0)
            /\ ( IsPrecipitation(pp_prev, i) /\ solid_ca(pp_prev, i) = 0 )
                => pp_output[x \o "/Ca(mol/mol)" \o precipitate_suffix(pp_mineralogy)][i]
                       = Num(0)

\* calculate_XCa has met a dissolved Ca mass of 0 under a trace element that
\* is there, and a Ca mass that does not change while a trace element does
C16_Witness ==
    /\ pp_pc = "calculate_XCa"
    /\ \E i \in 1..Len(pp_prev["step_desc"]) :
        /\ dissolved_ca(pp_prev, i) = 0
        /\ x_dissolved(pp_prev, "Mg", i) # 0
        /\ pp_output["Mg/Ca(mol/mol)"][i] = Num(0)
    /\ \E j \in 1..Len(pp_prev["step_desc"]) :
        /\ IsPrecipitation(pp_prev, j) /\ solid_ca(pp_prev, j) = 0
        /\ x_dissolved(pp_prev, "Mg", j) # x_dissolved(pp_prev, "Mg", j - 1)
        /\ pp_output["Mg/Ca(mol/mol)" \o precipitate_suffix(pp_mineralogy)][j] = Num(0)

\* C22 as stated: after calculate_radiocarbon, in every series whose key
\* contains 'R14C', every step after the first bedrock-tagged step holds the
\* value at that first bedrock step, also when a later step is tagged
\* 'bedrock' again, and the steps up to it are unchanged.
C22_FrozenAtFirstBedrock ==
    pp_pc = "calculate_radiocarbon" =>
        \A k \in { x \in DOMAIN pp_prev : IsR14CKey(x) } : \A i \in 1..Len(pp_prev[k]) :
            LET fb == FirstBedrockUpTo(pp_prev, i)
            IN  pp_output[k][i] = IF fb = 0 THEN pp_prev[k][i] ELSE pp_prev[k][fb]

\* C22: after calculate_radiocarbon, in every series whose key contains
\* 'R14C', every step that is not tagged 'bedrock' and comes after a
\* bedrock-tagged step holds the value at the latest bedrock-tagged step
\* before it; the bedrock-tagged steps and the steps before the first of
\* them are unchanged.
C22_FrozenAtLatestBedrock ==
    pp_pc = "calculate_radiocarbon" =>
        \A k \in { x \in DOMAIN pp_prev : IsR14CKey(x) } :
            /\ Len(pp_output[k]) = Len(pp_prev[k])
            /\ \A i \in 1..Len(pp_prev[k]) :
                LET before == { j \in 1..(i - 1) : IsBedrock(pp_prev, j) }
                IN  IF IsBedrock(pp_prev, i) \/ before = {}
                    THEN pp_output[k][i] = pp_prev[k][i]
                    ELSE \E j \in before :
                            /\ \A n \in before : n <= j
                            /\ pp_output[k][i] = pp_prev[k][j]

\* calculate_radiocarbon has run on a series with two bedrock steps of
\* different R14C, followed by a step that now holds the value of the
\* second
C22_Witness ==
    /\ pp_pc = "calculate_radiocarbon"
    /\ IsBedrock(pp_prev, 1) /\ IsBedrock(pp_prev, 2)
    /\ pp_prev["R14C"][1] # pp_prev["R14C"][2]
    /\ pp_prev["R14C"][3] # pp_prev["R14C"][2]
    /\ pp_output["R14C"][3] = pp_prev["R14C"][2]
    /\ pp_output["R14C"][2] = pp_prev["R14C"][2]

\* the keys PostProcessor adds for a mineralogy it knows
DerivedKeys(m) ==
    { "f_ca", "f_c", "d18O_PDB", "DCP" }
    \cup { x \o "/Ca(mol/mol)" : x \in trace_elements }
    \cup { x \o "/Ca(mol/mol)_" \o m : x \in trace_elements }

\* C24: with raw series that all have the length of step_desc, every series
\* has that length after every method of PostProcessor.__init__, and after
\* the last one the derived series f_ca, f_c, X/Ca (dissolved and
\* precipitate), d18O_PDB and DCP are there with that length.
C24_SeriesLengths ==
    pp_pc # "idle" =>
        /\ \A k \in DOMAIN pp_output : Len(pp_output[k]) = Len(pp_output["step_desc"])
        /\ Len(pp_output["step_desc"]) = MaxSeries
        /\ ( pp_pc = "set_none" /\ pp_mineralogy \in { "Calcite", "Aragonite" } )
            => DerivedKeys(pp_mineralogy) \subseteq DOMAIN pp_output

\* all methods have run for Aragonite: d18O_PDB starts with NaN, a sentinel
\* has become None, DCP and the precipitate U/Ca have a value at every step
C24_Witness ==
    /\ pp_pc = "set_none" /\ pp_mineralogy = "Aragonite"
    /\ DerivedKeys("Aragonite") \subseteq DOMAIN pp_output
    /\ pp_output["d18O_PDB"][1] = NaN
    /\ Len(pp_output["d18O_PDB"]) = MaxSeries
    /\ Len(pp_output["DCP"]) = MaxSeries
    /\ Len(pp_output["U/Ca(mol/mol)_Aragonite"]) = MaxSeries
    /\ \E i \in 1..MaxSeries : pp_output["d13C_Aragonite"][i] = Missing

\* the keys of the U/Ca series and of the other X/Ca series
UCaKeys(m) == { "U/Ca(mol/mol)", "U/Ca(mol/mol)_" \o m }

OtherXCaKeys(m) ==
    UNION { { x \o "/Ca(mol/mol)", x \o "/Ca(mol/mol)_" \o m } : x \in trace_elements \ { "U" } }

\* C25: for Calcite and Aragonite, UCa_mmol_to_mol leaves in the dissolved
\* and in the precipitate U/Ca series 0.001 times the ratio calculate_XCa
\* stored, at every step, and Ba/Ca, Sr/Ca and Mg/Ca as they were; no later
\* method changes an X/Ca series, so what CDA reads is scaled exactly once.
C25_UCaScaledOnce ==
    pp_mineralogy \in { "Calcite", "Aragonite" } =>
        /\ pp_pc = "UCa_mmol_to_mol" =>
            /\ \A k \in UCaKeys(pp_mineralogy) :
                /\ Len(pp_output[k]) = Len(pp_prev[k])
                /\ \A i \in 1..Len(pp_prev[k]) : pp_output[k][i] = Milli(pp_prev[k][i])
            /\ \A k \in OtherXCaKeys(pp_mineralogy) : pp_output[k] = pp_prev[k]
        /\ pp_pc \in { "tidy", "calculate_radiocarbon", "set_none" } =>
            \A k \in UCaKeys(pp_mineralogy) \cup OtherXCaKeys(pp_mineralogy) :
                pp_output[k] = pp_prev[k]

\* all methods have run for Calcite: at some step the dissolved U/Ca is not
\* 0 and is a thousandth of the Mg/Ca computed from the same amounts, and
\* so is the precipitate U/Ca at some step
C25_Witness ==
    /\ pp_pc = "set_none" /\ pp_mineralogy = "Calcite"
    /\ \E i \in 1..MaxSeries :
        /\ pp_output["U/Ca(mol/mol)"][i].num > 0
        /\ pp_output["U/Ca(mol/mol)"][i] = Milli(pp_output["Mg/Ca(mol/mol)"][i])
    /\ \E j \in 1..MaxSeries :
        /\ pp_output["U/Ca(mol/mol)_Calcite"][j].num > 0
        /\ pp_output["U/Ca(mol/mol)_Calcite"][j] = Milli(pp_output["Mg/Ca(mol/mol)_Calcite"][j])

\* C29: after PostProcessor, at every step where R14C was the sentinel
\* (<= -999) and has become None, DCP is None too.
C29_SentinelDCPIsNone ==
    pp_pc = "set_none" =>
        \A i \in 1..Len(pp_prev["R14C"]) :
            ( pp_prev["R14C"][i].kind = "num" /\ pp_prev["R14C"][i].num <= -999 * Unit )
            => ( pp_output["R14C"][i] = Missing /\ pp_output["DCP"][i] = Missing )

(***************************************************************************)
(* Part III: DBReader -- get_1000lnalpha and get_alpha                     *)
(*                                                                         *)
(* Temperatures are in hundredths of a degree.  The database examined has  *)
(* three named expressions; their coefficient lists have one or two        *)
(* entries, so _database_eval is a0 + a1 * T.                              *)
(***************************************************************************)
DBIsotopes == { "44Ca", "13C" }

DBSpecies == { "Calcite/Ca(aq)", "Aragonite/Ca(aq)", "CO2(g)/CO2(aq)" }

\* 25 (read as degrees C), 283.15 K and 298.15 K, the default
DBTemperatures == { 2500, 28315, 29815 }

\* _ne_lookup: the lines under Log_alpha_<isotope>_<species>; none if no
\* named expression matches (the lookup raises)
ne_lookup(isotope, species) ==
    IF isotope = "44Ca" /\ species = "Calcite/Ca(aq)"
    THEN << [ op |-> "-ln_alpha1000", coeffs |-> << 5, 1 >>, ref |-> << >>, mult |-> 0 ] >>
    ELSE IF isotope = "44Ca" /\ species = "Aragonite/Ca(aq)"
    THEN << [ op |-> "-add_logk", coeffs |-> << >>,
              ref |-> << "44Ca", "Calcite/Ca(aq)" >>, mult |-> 2 ],
            [ op |-> "-ln_alpha1000", coeffs |-> << 1 >>, ref |-> << >>, mult |-> 0 ] >>
    ELSE IF isotope = "13C" /\ species = "CO2(g)/CO2(aq)"
    THEN << [ op |-> "-ln_alpha1000", coeffs |-> << 3 >>, ref |-> << >>, mult |-> 0 ] >>
    ELSE << >>

\* _database_eval: the sum of a[i] * coeffs[i] over coeffs = [1, T, ...]
database_eval(a, T) == a[1] + (IF Len(a) >= 2 THEN a[2] * T ELSE 0)

\* the conversion of a temperature given below 50
Kelvin(T) == IF T < 5000 THEN T + 27315 ELSE T

RECURSIVE lnalpha1000(_, _, _)
\* the value get_1000lnalpha computes at temperature T (Kelvin)
lnalpha1000(isotope, species, T) ==
    LET tmp == ne_lookup(isotope, species)
        term(a) == IF a.op = "-add_logk"
                   THEN lnalpha1000(a.ref[1], a.ref[2], T) * a.mult
                   ELSE database_eval(a.coeffs, T)
    IN  IF Len(tmp) = 1 THEN term(tmp[1]) ELSE term(tmp[1]) + term(tmp[2])

\* the cache keys a call of get_1000lnalpha fills: its own and those of
\* the expressions it adds
CacheKeys(isotope, species, T) ==
    { << isotope, species, T >> }
    \cup { << a.ref[1], a.ref[2], T >> :
            a \in { l \in Range(ne_lookup(isotope, species)) : l.op = "-add_logk" } }

\* self.alphas after get_1000lnalpha(isotope, species, T)
alphas_after(alphas, isotope, species, T) ==
    LET ks == CacheKeys(isotope, species, Kelvin(T)) \ DOMAIN alphas
    IN  [ k \in DOMAIN alphas \cup ks |->
            IF k \in DOMAIN alphas THEN alphas[k] ELSE lnalpha1000(k[1], k[2], k[3]) ]

\* get_1000lnalpha: the cached value if there is one
get_1000lnalpha(alphas, isotope, species, T) ==
    IF << isotope, species, Kelvin(T) >> \in DOMAIN alphas
    THEN alphas[<< isotope, species, Kelvin(T) >>]
    ELSE lnalpha1000(isotope, species, Kelvin(T))

\* math.exp(0.001 * x)
Exp(x) == [ exp_of_thousandths |-> x ]

\* get_alpha: get_1000lnalpha(isotope, species, temperature=298.15)
get_alpha(alphas, isotope, species, T) ==
    Exp(get_1000lnalpha(alphas, isotope, species, 29815))

DB_get_1000lnalpha ==
    /\ \E isotope \in DBIsotopes, species \in DBSpecies, T \in DBTemperatures :
        /\ db_call' = [ fn |-> "get_1000lnalpha", isotope |-> isotope,
                        species |-> species, temperature |-> T ]
        /\ IF ne_lookup(isotope, species) = << >>
           THEN /\ db_ret' = [ kind |-> "raised", val |-> 0 ]
                /\ db_alphas' = db_alphas
           ELSE /\ db_ret' = [ kind |-> "value",
                               val |-> get_1000lnalpha(db_alphas, isotope, species, T) ]
                /\ db_alphas' = alphas_after(db_alphas, isotope, species, T)
    /\ UNCHANGED << fmVars, cdaVars, ppVars, evVars >>

DB_get_alpha ==
    /\ \E isotope \in DBIsotopes, species \in DBSpecies, T \in DBTemperatures :
        /\ db_call' = [ fn |-> "get_alpha", isotope |-> isotope,
                        species |-> species, temperature |-> T ]
        /\ IF ne_lookup(isotope, species) = << >>
           THEN /\ db_ret' = [ kind |-> "raised", val |-> 0 ]
                /\ db_alphas' = db_alphas
           ELSE /\ db_ret' = [ kind |-> "value",
                               val |-> get_alpha(db_alphas, isotope, species, T) ]
                /\ db_alphas' = alphas_after(db_alphas, isotope, species, 29815)
    /\ UNCHANGED << fmVars, cdaVars, ppVars, evVars >>

NextDB ==
    \/ DB_get_1000lnalpha
    \/ DB_get_alpha

\* Calls made one after another to one DBReader.
SpecDB == Init /\ [][NextDB]_vars

\* C17: get_alpha(isotope, species, T) is exp(0.001 * get_1000lnalpha(isotope,
\* species, T)), the factor taken at the temperature T the caller passed.
C17_AlphaAtCallerTemperature ==
    ( db_call.fn = "get_alpha" /\ db_ret.kind = "value" ) =>
        db_ret.val = Exp(lnalpha1000(db_call.isotope, db_call.species,
                                     Kelvin(db_call.temperature)))

(***************************************************************************)
(* Part III: Evaluate -- load_data and get_settings_report                 *)
(***************************************************************************)
\* the keys of a settings dict besides 'id', in the order of the dict
SettingKeys == << "soil_pCO2", "temperature" >>

SettingValues == { 1, 2 }

\* the lists of SettingsObjects a settings.pkl may hold
PickledSettings ==
    { [ i \in 1..n |-> [ id |-> i - 1, soil_pCO2 |-> v[i][1], temperature |-> v[i][2] ] ]
      : n \in 1..2, v \in [ 1..2 -> SettingValues \X SettingValues ] }

\* model_settings: the dicts of the loaded SettingsObjects without 'id'
model_settings(settings) ==
    [ i \in 1..Len(settings) |->
        [ k \in Range(SettingKeys) |-> settings[i][k] ] ]

\* the (key, value) items in the order the two loops of get_settings_report
\* go through them
Items(ms) ==
    [ n \in 1..(Len(ms) * Len(SettingKeys)) |->
        ms[((n - 1) \div Len(SettingKeys)) + 1][SettingKeys[((n - 1) % Len(SettingKeys)) + 1]] ]

RECURSIVE AppendNew(_, _)
\* 'if v not in o[k]: o[k].append(v)' over the items, on one list
AppendNew(lst, items) ==
    IF items = << >> THEN lst
    ELSE AppendNew(IF Head(items) \in Range(lst) THEN lst ELSE Append(lst, Head(items)),
                   Tail(items))

\* get_settings_report: dict.fromkeys(d.keys(), []) gives every key the
\* same list object, so every append is seen under every key
get_settings_report(settings) ==
    LET ms     == model_settings(settings)
        shared == AppendNew(<< >>, Items(ms))
    IN  [ k \in DOMAIN ms[1] |-> shared ]

\* load_data(d): self._settings.extend(pickle.load(f))
EV_load_data ==
    /\ \E pk \in PickledSettings :
        /\ Len(ev_settings) + Len(pk) <= MaxModels
        /\ ev_settings' = ev_settings \o pk
    /\ UNCHANGED ev_report
    /\ UNCHANGED << fmVars, cdaVars, ppVars, dbVars >>

\* get_settings_report(); model_settings raises ValueError if nothing is loaded
EV_get_settings_report ==
    /\ ev_report' =
        IF ev_settings = << >>
        THEN [ kind |-> "ValueError", val |-> << >>, models |-> 0 ]
        ELSE [ kind |-> "report", val |-> get_settings_report(ev_settings),
               models |-> Len(ev_settings) ]
    /\ UNCHANGED ev_settings
    /\ UNCHANGED << fmVars, cdaVars, ppVars, dbVars >>

NextEval ==
    \/ EV_load_data
    \/ EV_get_settings_report

\* One Evaluate object: data loaded, reports asked for.
SpecEval == Init /\ [][NextEval]_vars

\* C19: get_settings_report maps every setting name to the list of the
\* distinct values the setting takes over the loaded models, each once, and
\* to no value of another setting.
C19_ReportPerSetting ==
    ev_report.kind = "report" =>
        \A k \in Range(SettingKeys) :
            LET lst == ev_report.val[k]
            IN  /\ Range(lst) = { ev_settings[i][k] : i \in 1..ev_report.models }
                /\ \A a, b \in 1..Len(lst) : lst[a] = lst[b] => a = b

====
